---- MODULE Spec2Model ----
(***************************************************************************)
(* ClarityCut: the review player of src/components/ReviewPhase.tsx (the    *)
(* playback loop, preview, scrubbing, skip buttons, accept/reject), the    *)
(* metrics of the App component, the result player's skip loop of          *)
(* src/components/ProcessPhase.tsx and the time/fraction mapping.          *)
(*                                                                         *)
(* Times are integers counting twentieths of a second (0.05 s), the finest *)
(* step the sources use (ProcessPhase.tsx:509), so 1 s = 20.               *)
(***************************************************************************)
EXTENDS Integers, Sequences, FiniteSets, TLC

VARIABLES
    cuts,             \* App.cuts / ReviewPhase props.cuts : Seq(CutEvent)
    originalDuration, \* App.originalDuration (0 until the probe loaded)
    mediaDuration,    \* the media's real length (fixed for a session)
    duration,         \* ReviewPhase duration state (0 until loadedmetadata)
    videoTime,        \* videoRef.current.currentTime
    paused,           \* videoRef.current.paused
    isPlaying,        \* ReviewPhase isPlaying state
    currentTime,      \* ReviewPhase currentTime state
    activeCutId,      \* ReviewPhase activeCutId state
    isScrubbing,      \* ReviewPhase isScrubbing state
    wasPlaying,       \* wasPlayingRef.current
    previewEnd,       \* previewEndTimeRef.current
    stats,            \* the memoized stats of ReviewPhase
    op,               \* the handler (and its branch) that made the last step
    seek,             \* what the last step assigned to video.currentTime
    sk,               \* a run of a skip policy alone: cuts, position, jumps
    mp,               \* a run of the time/fraction mapping alone
    an,               \* a run of the analysis alone: mock, filter, setStatus
    up,               \* a run of the App's file selection and duration probe
    lp,               \* a run of a playback loop's frame scheduling alone
    rd,               \* a run of ProcessPhase's simulated render alone
    ph                \* a run of the custom phrase editor alone

vars == <<cuts, originalDuration, mediaDuration, duration, videoTime, paused,
          isPlaying, currentTime, activeCutId, isScrubbing, wasPlaying,
          previewEnd, stats, op, seek, sk, mp, an, up,
          lp, rd, ph>>

\* the variables of the stand-alone runs
pure == <<sk, mp, an, up, lp, rd, ph>>

\* null of activeCutId
Null == "null"

\* previewEndTimeRef.current is <<>> for null and <<t>> for the number t
NoPreview == <<>>

\* seek is <<>> when the step assigned nothing to video.currentTime
NoSeek == <<>>

--------------------------------------------------------------------------
(* Program constants, in twentieths of a second.                          *)

\* previewCut: 1 s before the cut and 1 s after it
PreviewPad == 20

\* checkTime, preview branch: the cut stays highlighted within 1.5 s
HighlightPad == 30

\* checkTime: a cut starting within 2 s of the position is "upcoming"
Lookahead == 40

\* the four skip buttons: -10 s, -5 s, +5 s, +10 s
SkipAmounts == {-200, -100, 100, 200}

\* ProcessPhase checkTime: no skip within the last 0.1 s of a cut
EndGuard == 2

\* ProcessPhase checkTime: a skip lands 0.05 s after the end of the cut
EndBuffer == 1

\* analyzeVideoMock: starts are drawn from [0, duration - 5 s)
StartMargin == 100

\* analyzeVideoMock: about one cut every 10 s
SecondsPerCut == 200

\* analyzeVideoMock: at least 5 cuts
MinCuts == 5

\* handleStartAnalysis: the duration used when originalDuration is 0 (60 s)
FallbackDuration == 1200

\* analyzeVideoMock: length of a cut of each type (1.2 s, 0.4 s, ...)
CutLength == [cliche |-> 24, filler |-> 8, repetition |-> 20,
              stutter |-> 10, silence |-> 40]

--------------------------------------------------------------------------
(* Bounds of the model.                                                   *)

\* length of the long medium (8 s)
DurLong == 160

\* length of the short medium (2.5 s, shorter than the 5 s margin of the mock)
DurShort == 50

\* width of the timeline widget, in pixels
Width == 2

\* the media clock is observed at least once per MaxStep
MaxStep == 40

\* the stand-alone skip runs start at a position in 0..MaxSkipPos
MaxSkipPos == 24

\* significant bits of a number (53 for the doubles of JavaScript)
MantBits == 5

\* the mapping is run on durations in 1..MaxMapDur and times in 0..duration
MaxMapDur == 31

\* a stand-alone run of the mock analysis is stopped after MaxCuts cuts
MaxCuts == 2

\* a stand-alone run of a loop requests at most MaxFrames + 1 frames
MaxFrames == 40

\* File objects chosen in one run of the upload screen
MaxFiles == 3

\* a stand-alone run of the phrase editor makes at most MaxEdits removals,
\* loads, saves and deletions (additions are limited by the editor)
MaxEdits == 3

--------------------------------------------------------------------------
(* Helpers.                                                               *)

Min(a, b) == IF a < b THEN a ELSE b

Max(a, b) == IF a > b THEN a ELSE b

Abs(a) == IF a < 0 THEN -a ELSE a

Cut(id, type, start) ==
    [id |-> id, type |-> type, start |-> start,
     end |-> start + CutLength[type], status |-> "accepted"]

\* mutant: the last element that satisfies the predicate
FindIndex_Last(n, sat) ==
    IF \E i \in 1..n : i \in sat
    THEN CHOOSE i \in 1..n : i \in sat /\ \A j \in (i + 1)..n : j \notin sat
    ELSE 0

\* Array.prototype.find with the predicate given as the set of indices that
\* satisfy it: the index of the first such element, 0 when there is none
FindIndex(n, sat) ==
    IF \E i \in 1..n : i \in sat
    THEN CHOOSE i \in 1..n : i \in sat /\ \A j \in 1..(i - 1) : j \notin sat
    ELSE 0

\* mutant: the end of the cut counted as inside it
InAccepted_ClosedEnd(cs, time) ==
    {i \in 1..Len(cs) : cs[i].status = "accepted"
                        /\ time >= cs[i].start /\ time <= cs[i].end}

\* mutant: the status of the cut not looked at
InAccepted_AnyStatus(cs, time) ==
    {i \in 1..Len(cs) : time >= cs[i].start /\ time < cs[i].end}

\* checkTime's predicate of the accepted cut to skip
InAccepted(cs, time) ==
    {i \in 1..Len(cs) : cs[i].status = "accepted"
                        /\ time >= cs[i].start /\ time < cs[i].end}

\* checkTime's predicate of the upcoming cut
Upcoming(cs, time) ==
    {i \in 1..Len(cs) : Abs(cs[i].start - time) < Lookahead}

\* checkTime's predicate of the cut highlighted during a preview
InPreviewWindow(cs, time) ==
    {i \in 1..Len(cs) : time >= cs[i].start - HighlightPad
                        /\ time <= cs[i].end + HighlightPad}

\* handleScrubMove's predicate of the cut under the pointer
AtTime(cs, time) ==
    {i \in 1..Len(cs) : time >= cs[i].start /\ time < cs[i].end}

IdOrNull(cs, i) == IF i = 0 THEN Null ELSE cs[i].id

--------------------------------------------------------------------------
(* Metrics.                                                               *)

RECURSIVE ReduceSaved(_, _)
\* acceptedCuts.reduce((acc, c) => acc + (c.end - c.start), 0)
ReduceSaved(cs, acc) ==
    IF cs = <<>> THEN acc
    ELSE ReduceSaved(Tail(cs), acc + (Head(cs).end - Head(cs).start))

\* cuts.filter(c => c.status === 'accepted')
FilterAccepted(cs) == SelectSeq(cs, LAMBDA c : c.status = "accepted")

\* App.calculateMetrics
calculateMetrics(cs, od) ==
    LET acceptedCuts == FilterAccepted(cs)
        timeSaved == ReduceSaved(acceptedCuts, 0)
    IN  [originalDuration |-> od,
         finalDuration |-> od - timeSaved,
         cutsCount |-> Len(acceptedCuts),
         timeSaved |-> timeSaved]

\* ReviewPhase stats: useMemo(..., [cuts]), recomputed when cuts changes
ComputeStats(cs) ==
    LET accepted == FilterAccepted(cs)
    IN  [count |-> Len(accepted), timeSaved |-> ReduceSaved(accepted, 0)]

\* mutant: the memo never recomputed (an empty dependency list)
UseMemoStats_Stale(old, oldCuts, newCuts) == old

UseMemoStats(old, oldCuts, newCuts) ==
    IF newCuts # oldCuts THEN ComputeStats(newCuts) ELSE old

--------------------------------------------------------------------------
(* The media element.                                                     *)

\* the loadedmetadata event has fired
MediaReady == duration # 0

\* assignment to video.currentTime: the element clamps a seek to its range
MediaSeek(t) ==
    IF MediaReady THEN Max(0, Min(mediaDuration, t)) ELSE Max(0, t)

\* the instants at which the media clock is sampled: a grid, the end of the
\* content and the bound of the preview in progress
SamplePoints ==
    {t \in 0..mediaDuration :
        \/ t % MaxStep = 0
        \/ t = mediaDuration
        \/ previewEnd = <<t>>}

--------------------------------------------------------------------------
(* Initial states: the review phase opens on the cuts the analysis        *)
(* produced (sorted by start, all accepted, lengths by type).             *)

Scenarios ==
    { [dur |-> DurLong, od |-> DurLong,
       cuts |-> <<Cut("cut-1", "cliche", 20), Cut("cut-0", "silence", 40)>>],
      [dur |-> DurShort, od |-> DurShort,
       cuts |-> <<Cut("cut-0", "repetition", -10),
                  Cut("cut-1", "silence", 0)>>],
      \* the probe had not reported a duration when the analysis started
      \* (originalDuration || 60): cuts of a 60 s timeline on a shorter medium
      [dur |-> DurLong, od |-> 0,
       cuts |-> <<Cut("cut-1", "silence", 130), Cut("cut-0", "cliche", 190)>>] }

\* the stand-alone runs are not used by the review player
SkIdle == [loop |-> "none", cuts |-> <<>>, pos |-> 0, jumps |-> 0]

MpIdle == [stage |-> "none", time |-> 0, dur |-> 0,
           fraction |-> <<0, 1>>, back |-> <<0, 1>>]

AnIdle == [stage |-> "none"]

UpIdle == [stage |-> "none"]

LpIdle == [loop |-> "none"]

RdIdle == [stage |-> "none"]

PhIdle == [stage |-> "none"]

Init ==
    /\ \E s \in Scenarios :
          /\ cuts = s.cuts
          /\ originalDuration = s.od
          /\ mediaDuration = s.dur
          /\ stats = ComputeStats(s.cuts)
    /\ duration = 0
    /\ videoTime = 0
    /\ paused = TRUE
    /\ isPlaying = FALSE
    /\ currentTime = 0
    /\ activeCutId = Null
    /\ isScrubbing = FALSE
    /\ wasPlaying = FALSE
    /\ previewEnd = NoPreview
    /\ op = "init"
    /\ seek = NoSeek
    /\ sk = SkIdle
    /\ mp = MpIdle
    /\ an = AnIdle
    /\ up = UpIdle
    /\ lp = LpIdle
    /\ rd = RdIdle
    /\ ph = PhIdle

--------------------------------------------------------------------------
(* The media element's own behaviour.                                     *)

\* video.play(): a paused element may refuse (the promise is rejected and
\* paused stays true); a playing element stays playing
PlayStarts(ok) == ok \/ ~paused

\* play() on an element that has ended restarts from the beginning
PlayFrom(t) == IF MediaReady /\ t >= mediaDuration THEN 0 ELSE t

\* onLoadedMetadata={(e) => setDuration(e.currentTarget.duration)}
onLoadedMetadata ==
    /\ duration = 0
    /\ duration' = mediaDuration
    /\ videoTime' = Min(videoTime, mediaDuration)
    /\ op' = "metadata"
    /\ seek' = NoSeek
    /\ UNCHANGED pure
    /\ UNCHANGED <<cuts, originalDuration, mediaDuration, paused, isPlaying,
                   currentTime, activeCutId, isScrubbing, wasPlaying,
                   previewEnd, stats>>

\* the media clock: a playing element advances; at the end of the content
\* it pauses itself, which fires onPause={() => setIsPlaying(false)}
MediaClock ==
    /\ ~paused
    /\ MediaReady
    /\ IF videoTime >= mediaDuration
       THEN /\ paused' = TRUE
            /\ isPlaying' = FALSE
            /\ UNCHANGED videoTime
       ELSE \E t \in SamplePoints :
               /\ videoTime < t
               /\ t <= videoTime + MaxStep
               /\ videoTime' = t
               /\ paused' = (t = mediaDuration)
               /\ isPlaying' = IF t = mediaDuration THEN FALSE ELSE isPlaying
    /\ op' = "clock"
    /\ seek' = NoSeek
    /\ UNCHANGED pure
    /\ UNCHANGED <<cuts, originalDuration, mediaDuration, duration,
                   currentTime, activeCutId, isScrubbing, wasPlaying,
                   previewEnd, stats>>

--------------------------------------------------------------------------
(* The playback loop of ReviewPhase.                                      *)

\* mutant: no test of isScrubbing
TickBranch_NoScrubGuard ==
    IF ~paused
    THEN IF previewEnd # NoPreview
         THEN IF videoTime >= previewEnd[1] THEN "tickPreviewStop"
                                            ELSE "tickPreview"
         ELSE IF FindIndex(Len(cuts), InAccepted(cuts, videoTime)) # 0
              THEN "tickSkip"
              ELSE "tickUpcoming"
    ELSE "tickPaused"

\* mutant: the preview branch falls through to the skip logic
TickBranch_NoPreviewGuard ==
    IF isScrubbing THEN "tickScrubbing"
    ELSE IF ~paused
         THEN IF previewEnd # NoPreview /\ videoTime >= previewEnd[1]
              THEN "tickPreviewStop"
              ELSE IF FindIndex(Len(cuts), InAccepted(cuts, videoTime)) # 0
                   THEN "tickSkip"
                   ELSE IF previewEnd # NoPreview THEN "tickPreview"
                                                  ELSE "tickUpcoming"
         ELSE "tickPaused"

\* mutant: the preview stops only once the position is past the bound
TickBranch_StrictBound ==
    IF isScrubbing THEN "tickScrubbing"
    ELSE IF ~paused
         THEN IF previewEnd # NoPreview
              THEN IF videoTime > previewEnd[1] THEN "tickPreviewStop"
                                                ELSE "tickPreview"
              ELSE IF FindIndex(Len(cuts), InAccepted(cuts, videoTime)) # 0
                   THEN "tickSkip"
                   ELSE "tickUpcoming"
         ELSE "tickPaused"

\* the branch checkTime takes
TickBranch ==
    IF isScrubbing THEN "tickScrubbing"
    ELSE IF ~paused
         THEN IF previewEnd # NoPreview
              THEN IF videoTime >= previewEnd[1] THEN "tickPreviewStop"
                                              ELSE "tickPreview"
              ELSE IF FindIndex(Len(cuts), InAccepted(cuts, videoTime)) # 0
                   THEN "tickSkip"
                   ELSE "tickUpcoming"
         ELSE "tickPaused"

\* mutant: the jump lands a little after the cut, as the result player's does
JumpTarget_Buffered(cs, time) ==
    cs[FindIndex(Len(cs), InAccepted(cs, time))].end + EndBuffer

\* the position a skip jump writes: videoRef.current.currentTime = currentCut.end
JumpTarget(cs, time) == cs[FindIndex(Len(cs), InAccepted(cs, time))].end

checkTime ==
    LET b == TickBranch
        time == videoTime
    IN  /\ op' = b
        /\ seek' = IF b = "tickSkip" THEN <<JumpTarget(cuts, time)>> ELSE NoSeek
        /\ UNCHANGED pure
        /\ CASE b = "tickScrubbing" ->
                UNCHANGED <<videoTime, paused, isPlaying, currentTime,
                            activeCutId, previewEnd>>
             [] b = "tickPreviewStop" ->
                /\ currentTime' = time
                /\ paused' = TRUE
                /\ isPlaying' = FALSE
                /\ previewEnd' = NoPreview
                /\ UNCHANGED <<videoTime, activeCutId>>
             [] b = "tickPreview" ->
                /\ currentTime' = time
                /\ activeCutId' =
                      LET i == FindIndex(Len(cuts), InPreviewWindow(cuts, time))
                      IN  IF i # 0 THEN cuts[i].id ELSE activeCutId
                /\ UNCHANGED <<videoTime, paused, isPlaying, previewEnd>>
             [] b = "tickSkip" ->
                /\ currentTime' = time
                /\ activeCutId' =
                      cuts[FindIndex(Len(cuts), InAccepted(cuts, time))].id
                /\ videoTime' = MediaSeek(JumpTarget(cuts, time))
                /\ UNCHANGED <<paused, isPlaying, previewEnd>>
             [] b = "tickUpcoming" ->
                /\ currentTime' = time
                /\ activeCutId' =
                      IdOrNull(cuts, FindIndex(Len(cuts), Upcoming(cuts, time)))
                /\ UNCHANGED <<videoTime, paused, isPlaying, previewEnd>>
             [] b = "tickPaused" ->
                /\ isPlaying' = IF paused # ~isPlaying THEN ~paused
                                                       ELSE isPlaying
                /\ UNCHANGED <<videoTime, paused, currentTime, activeCutId,
                               previewEnd>>
        /\ UNCHANGED <<cuts, originalDuration, mediaDuration, duration,
                       isScrubbing, wasPlaying, stats>>

--------------------------------------------------------------------------
(* Commands of ReviewPhase.                                               *)

\* previewCut: the window of the preview
PreviewStart(c) == Max(0, c.start - PreviewPad)

\* mutant: the bound not clamped to the duration
PreviewBound_NoClamp(c) == c.end + PreviewPad

PreviewBound(c) == Min(duration, c.end + PreviewPad)

\* mutant: isPlaying set without waiting for the promise of play()
PreviewIsPlaying_Eager(ok) == TRUE

\* previewCut: play().then(() => setIsPlaying(true)).catch(console.error)
PreviewIsPlaying(ok) == IF PlayStarts(ok) THEN TRUE ELSE isPlaying

previewCut(i, ok) ==
    LET cut == cuts[i]
    IN  /\ activeCutId' = cut.id
        /\ previewEnd' = <<PreviewBound(cut)>>
        /\ videoTime' = IF PlayStarts(ok)
                        THEN PlayFrom(MediaSeek(PreviewStart(cut)))
                        ELSE MediaSeek(PreviewStart(cut))
        /\ paused' = ~PlayStarts(ok)
        /\ isPlaying' = PreviewIsPlaying(ok)
        /\ op' = IF PlayStarts(ok) THEN "preview" ELSE "previewPlayFailed"
        /\ seek' = <<PreviewStart(cut)>>
        /\ UNCHANGED pure
        /\ UNCHANGED <<cuts, originalDuration, mediaDuration, duration,
                       currentTime, isScrubbing, wasPlaying, stats>>

\* mutant: the target not clamped to the duration
SkipTarget_NoUpperClamp(seconds) == Max(0, videoTime + seconds)

\* skip: the target of a skip button
SkipTarget(seconds) == Max(0, Min(duration, videoTime + seconds))

skip(seconds) ==
    /\ videoTime' = MediaSeek(SkipTarget(seconds))
    /\ currentTime' = SkipTarget(seconds)
    /\ previewEnd' = NoPreview
    /\ op' = "skip"
    /\ seek' = <<SkipTarget(seconds)>>
    /\ UNCHANGED pure
    /\ UNCHANGED <<cuts, originalDuration, mediaDuration, duration, paused,
                   isPlaying, activeCutId, isScrubbing, wasPlaying, stats>>

\* the play/pause button
playPauseClick(ok) ==
    /\ IF isPlaying
       THEN /\ paused' = TRUE
            /\ isPlaying' = FALSE
            /\ UNCHANGED videoTime
       ELSE /\ paused' = ~PlayStarts(ok)
            /\ isPlaying' = IF PlayStarts(ok) THEN TRUE ELSE isPlaying
            /\ videoTime' = IF PlayStarts(ok) THEN PlayFrom(videoTime)
                                              ELSE videoTime
    /\ op' = IF isPlaying THEN "pause"
             ELSE IF PlayStarts(ok) THEN "play" ELSE "playFailed"
    /\ seek' = NoSeek
    /\ UNCHANGED pure
    /\ UNCHANGED <<cuts, originalDuration, mediaDuration, duration,
                   currentTime, activeCutId, isScrubbing, wasPlaying,
                   previewEnd, stats>>

\* mutant: the pointer offset not clamped to the timeline's width
ScrubTime_NoClamp(px) == (px * duration) \div Width

\* handleScrubMove: pointer offset to time
ScrubTime(px) == (Max(0, Min(px, Width)) * duration) \div Width

\* handleScrubMove's effect on currentTime, the media position and activeCutId
ScrubMoveEffect(px) ==
    IF duration > 0
    THEN /\ currentTime' = ScrubTime(px)
         /\ videoTime' = MediaSeek(ScrubTime(px))
         /\ seek' = <<ScrubTime(px)>>
         /\ activeCutId' =
               IdOrNull(cuts, FindIndex(Len(cuts), AtTime(cuts, ScrubTime(px))))
    ELSE /\ seek' = NoSeek
         /\ UNCHANGED <<currentTime, videoTime, activeCutId>>

\* the window's mousemove listener, installed while scrubbing
handleScrubMove(px) ==
    /\ isScrubbing
    /\ ScrubMoveEffect(px)
    /\ op' = "scrubMove"
    /\ UNCHANGED pure
    /\ UNCHANGED <<cuts, originalDuration, mediaDuration, duration, paused,
                   isPlaying, isScrubbing, wasPlaying, previewEnd, stats>>

\* mutant: only normal playback is remembered, not a preview in progress
ScrubStartWasPlaying_NormalOnly == ~paused /\ previewEnd = NoPreview

\* handleScrubStart: wasPlayingRef.current, set from !videoRef.current.paused
ScrubStartWasPlaying == ~paused

\* mutant: the preview bound survives the start of a scrub
ScrubStartPreviewEnd_Kept == previewEnd

\* handleScrubStart: previewEndTimeRef.current = null
ScrubStartPreviewEnd == NoPreview

handleScrubStart(px) ==
    /\ isScrubbing' = TRUE
    /\ previewEnd' = ScrubStartPreviewEnd
    /\ wasPlaying' = ScrubStartWasPlaying
    /\ paused' = TRUE
    /\ isPlaying' = IF ~paused THEN FALSE ELSE isPlaying
    /\ ScrubMoveEffect(px)
    /\ op' = "scrubStart"
    /\ UNCHANGED pure
    /\ UNCHANGED <<cuts, originalDuration, mediaDuration, duration, stats>>

handleScrubEnd(ok) ==
    /\ isScrubbing
    /\ isScrubbing' = FALSE
    /\ IF wasPlaying
       THEN /\ paused' = ~PlayStarts(ok)
            /\ isPlaying' = IF PlayStarts(ok) THEN TRUE ELSE isPlaying
            /\ videoTime' = IF PlayStarts(ok) THEN PlayFrom(videoTime)
                                              ELSE videoTime
       ELSE UNCHANGED <<paused, isPlaying, videoTime>>
    /\ wasPlaying' = FALSE
    /\ op' = IF wasPlaying /\ ~PlayStarts(ok) THEN "scrubEndPlayFailed"
                                            ELSE "scrubEnd"
    /\ seek' = NoSeek
    /\ UNCHANGED pure
    /\ UNCHANGED <<cuts, originalDuration, mediaDuration, duration,
                   currentTime, activeCutId, previewEnd, stats>>

\* mutant: the id not compared, every cut gets the status
SetStatus_All(cs, id, status) ==
    [i \in 1..Len(cs) |-> [cs[i] EXCEPT !.status = status]]

\* prev.map(c => c.id === id ? { ...c, status } : c)
SetStatus(cs, id, status) ==
    [i \in 1..Len(cs) |->
        IF cs[i].id = id THEN [cs[i] EXCEPT !.status = status] ELSE cs[i]]

toggleCutStatus(id, status) ==
    /\ cuts' = SetStatus(cuts, id, status)
    /\ stats' = UseMemoStats(stats, cuts, cuts')
    /\ op' = "toggle"
    /\ seek' = NoSeek
    /\ UNCHANGED pure
    /\ UNCHANGED <<originalDuration, mediaDuration, duration, videoTime,
                   paused, isPlaying, currentTime, activeCutId, isScrubbing,
                   wasPlaying, previewEnd>>

\* pointer offsets relative to the timeline's left edge
PointerOffsets == (-1)..(Width + 1)

CutIds == {cuts[i].id : i \in 1..Len(cuts)}

Next ==
    \/ onLoadedMetadata
    \/ MediaClock
    \/ checkTime
    \/ \E i \in 1..Len(cuts), ok \in BOOLEAN : previewCut(i, ok)
    \/ \E s \in SkipAmounts : skip(s)
    \/ \E ok \in BOOLEAN : playPauseClick(ok)
    \/ \E px \in PointerOffsets : handleScrubStart(px)
    \/ \E px \in PointerOffsets : handleScrubMove(px)
    \/ \E ok \in BOOLEAN : handleScrubEnd(ok)
    \/ \E id \in CutIds, st \in {"accepted", "rejected"} :
          toggleCutStatus(id, st)

Spec == Init /\ [][Next]_vars

\* the review player with its scheduling: the loop requests a frame at
\* the end of every tick, so a tick that would change the state is
\* eventually run, and the clock of a playing element keeps advancing
SpecFair == Init /\ [][Next]_vars /\ WF_vars(checkTime) /\ WF_vars(MediaClock)

TickOps == {"tickScrubbing", "tickPreviewStop", "tickPreview", "tickSkip",
            "tickUpcoming", "tickPaused"}

TypeOK ==
    /\ duration \in {0, mediaDuration}
    /\ paused \in BOOLEAN /\ isPlaying \in BOOLEAN
    /\ isScrubbing \in BOOLEAN /\ wasPlaying \in BOOLEAN
    /\ videoTime \in Int /\ currentTime \in Int
    /\ activeCutId \in CutIds \cup {Null}
    /\ previewEnd \in {NoPreview} \cup {<<t>> : t \in -100..mediaDuration}

-----------------------------------------------------------------------------------------------------------------------------------------------
(* JavaScript numbers: a number is a fraction <<n, d>> with d > 0, <<0, 0>> *)
(* is NaN and <<1, 0>>, <<-1, 0>> are the infinities.  A quotient or a      *)
(* product is rounded to MantBits significant bits, ties to even.           *)

NaN == <<0, 0>>

Infinity == <<1, 0>>

NegInfinity == <<-1, 0>>

Zero == <<0, 1>>

One == <<1, 1>>

RECURSIVE Pow2(_)
Pow2(k) == IF k = 0 THEN 1 ELSE 2 * Pow2(k - 1)

\* the integer nearest to n / d (n >= 0, d > 0), ties to even
RoundNearestEven(n, d) ==
    LET q == n \div d
        r == n % d
    IN  IF 2 * r > d \/ (2 * r = d /\ q % 2 = 1) THEN q + 1 ELSE q

RECURSIVE RoundTo(_, _, _)
\* (n / d) * 2^e (n > 0, d > 0) rounded to MantBits significant bits
RoundTo(n, d, e) ==
    IF n >= Pow2(MantBits) * d THEN RoundTo(n, 2 * d, e + 1)
    ELSE IF n < Pow2(MantBits - 1) * d THEN RoundTo(2 * n, d, e - 1)
    ELSE IF e >= 0 THEN <<RoundNearestEven(n, d) * Pow2(e), 1>>
                   ELSE <<RoundNearestEven(n, d), Pow2(-e)>>

\* a / b for two times a and b (integers), b = 0 included
JSDiv(a, b) ==
    IF b = 0 THEN (IF a = 0 THEN NaN
                   ELSE IF a > 0 THEN Infinity ELSE NegInfinity)
    ELSE IF a = 0 THEN Zero
    ELSE IF (a > 0) = (b > 0) THEN RoundTo(Abs(a), Abs(b), 0)
    ELSE LET q == RoundTo(Abs(a), Abs(b), 0) IN <<-q[1], q[2]>>

\* f * b for a number f >= 0 and a time b >= 0
JSMul(f, b) ==
    IF f[1] = 0 \/ b = 0 THEN Zero ELSE RoundTo(f[1] * b, f[2], 0)

\* style left of the active playhead, and width of the progress fill:
\* currentTime / duration
PlayheadLeft == JSDiv(currentTime, duration)

\* style left of a cut's marker: cut.start / duration
MarkerLeft(c) == JSDiv(c.start, duration)

\* Math.max(0, Math.min(x, 1)) of handleScrubMove, on the fraction of the width
ClampUnit(f) ==
    IF f[1] < 0 THEN Zero ELSE IF f[1] > f[2] THEN One ELSE f

\* the fraction of the timeline at which a time is drawn
ToFraction(time, dur) == ClampUnit(JSDiv(time, dur))

\* mutant: the time truncated to a whole number (Math.floor)
ToTime_Floor(f, dur) == <<(f[1] * dur) \div f[2], 1>>

\* handleScrubMove: newTime = percentage * duration
ToTime(f, dur) == JSMul(f, dur)

--------------------------------------------------------------------------
(* The skip loop of the result player (ProcessPhase).                     *)

\* ProcessPhase checkTime's predicate of the accepted cut to skip
ProcessActive(cs, time) ==
    {i \in 1..Len(cs) : cs[i].status = "accepted"
                        /\ time >= cs[i].start
                        /\ time < cs[i].end - EndGuard}

\* videoRef.current.currentTime = activeCut.end + 0.05
ProcessJumpTarget(cs, time) ==
    cs[FindIndex(Len(cs), ProcessActive(cs, time))].end + EndBuffer

--------------------------------------------------------------------------
(* Stand-alone runs: a skip policy applied again and again to a position, *)
(* with the cuts fixed (SpecSkip), and a time drawn on the timeline and   *)
(* scrubbed back (SpecMapper).                                            *)

review == <<cuts, originalDuration, mediaDuration, duration, videoTime,
            paused, isPlaying, currentTime, activeCutId, isScrubbing,
            wasPlaying, previewEnd, stats, op, seek>>

\* the review player at rest, with no cuts
ReviewIdle ==
    /\ cuts = <<>>
    /\ originalDuration = 0
    /\ mediaDuration = 0
    /\ duration = 0
    /\ videoTime = 0
    /\ paused = TRUE
    /\ isPlaying = FALSE
    /\ currentTime = 0
    /\ activeCutId = Null
    /\ isScrubbing = FALSE
    /\ wasPlaying = FALSE
    /\ previewEnd = NoPreview
    /\ stats = ComputeStats(<<>>)
    /\ op = "init"
    /\ seek = NoSeek

SkipStarts == {0, 4, 8, 10}

SkipTypes == {"filler", "stutter"}

Statuses == {"accepted", "rejected"}

\* two cuts as the analysis hands them over: sorted by start, any status
SkipCutLists ==
    LET params == {q \in [sa : SkipStarts, sb : SkipStarts,
                          ta : SkipTypes, tb : SkipTypes,
                          xa : Statuses, xb : Statuses] : q.sa <= q.sb}
    IN  {<<[Cut("cut-1", q.ta, q.sa) EXCEPT !.status = q.xa],
           [Cut("cut-0", q.tb, q.sb) EXCEPT !.status = q.xb]>> : q \in params}

SkipInit ==
    /\ ReviewIdle
    /\ mp = MpIdle
    /\ an = AnIdle
    /\ up = UpIdle
    /\ lp = LpIdle
    /\ rd = RdIdle
    /\ ph = PhIdle
    /\ sk \in [loop : {"review", "process"}, cuts : SkipCutLists,
               pos : 0..MaxSkipPos, jumps : {0}]

\* one tick of ReviewPhase's checkTime that jumps
ReviewSkipStep ==
    /\ sk.loop = "review"
    /\ InAccepted(sk.cuts, sk.pos) # {}
    /\ sk' = [sk EXCEPT !.pos = JumpTarget(sk.cuts, sk.pos),
                        !.jumps = @ + 1]
    /\ UNCHANGED <<review, mp, an, up, lp, rd, ph>>

\* one tick of ProcessPhase's checkTime that jumps
ProcessSkipStep ==
    /\ sk.loop = "process"
    /\ ProcessActive(sk.cuts, sk.pos) # {}
    /\ sk' = [sk EXCEPT !.pos = ProcessJumpTarget(sk.cuts, sk.pos),
                        !.jumps = @ + 1]
    /\ UNCHANGED <<review, mp, an, up, lp, rd, ph>>

SkipNext == ReviewSkipStep \/ ProcessSkipStep

SpecSkip == SkipInit /\ [][SkipNext]_vars

MapperInit ==
    /\ ReviewIdle
    /\ sk = SkIdle
    /\ an = AnIdle
    /\ up = UpIdle
    /\ lp = LpIdle
    /\ rd = RdIdle
    /\ ph = PhIdle
    /\ \E d \in 1..MaxMapDur, t \in 0..MaxMapDur :
          /\ t <= d
          /\ mp = [stage |-> "input", time |-> t, dur |-> d,
                   fraction |-> Zero, back |-> Zero]

\* the playhead is drawn at currentTime / duration of the width
RenderPlayhead ==
    /\ mp.stage = "input"
    /\ mp' = [mp EXCEPT !.stage = "rendered",
                        !.fraction = ToFraction(mp.time, mp.dur)]
    /\ UNCHANGED <<review, sk, an, up, lp, rd, ph>>

\* the pointer is pressed on the playhead: handleScrubMove maps it to a time
ScrubAtPlayhead ==
    /\ mp.stage = "rendered"
    /\ mp' = [mp EXCEPT !.stage = "scrubbed",
                        !.back = ToTime(mp.fraction, mp.dur)]
    /\ UNCHANGED <<review, sk, an, up, lp, rd, ph>>

MapperNext == RenderPlayhead \/ ScrubAtPlayhead

SpecMapper == MapperInit /\ [][MapperNext]_vars

--------------------------------------------------------------------------
(* The frame scheduling of a playback loop alone: the effect of           *)
(* ReviewPhase (lines 60-120) and the one of ProcessPhase (lines 492-520) *)
(* with requestAnimationFrame and cancelAnimationFrame.                   *)

\* no handle: the effect's animationFrame before its first assignment
NoFrame == 0

\* mutant: the handle of the frame a tick requests is not stored
StoreFrame_Dropped(old, h) == old

\* animationFrame = requestAnimationFrame(checkTime)
StoreFrame(old, h) == h

\* the paths through checkTime, one requestAnimationFrame call on each:
\* ReviewPhase lines 66, 86 and 115, ProcessPhase line 512
TickPaths(loop) ==
    IF loop = "review" THEN {"scrubbing", "preview", "normal"}
                       ELSE {"normal"}

\* requestAnimationFrame(checkTime): a fresh handle, the callback pending
RequestFrame(l) ==
    [l EXCEPT !.pending = @ \cup {l.next},
              !.animationFrame = StoreFrame(@, l.next),
              !.next = @ + 1]

\* cancelAnimationFrame(animationFrame)
CancelFrame(l) == [l EXCEPT !.pending = @ \ {l.animationFrame}]

\* the effect's body: ReviewPhase always requests a frame, ProcessPhase
\* only if isComplete
RunEffect(l) ==
    LET fresh == [l EXCEPT !.animationFrame = NoFrame]
    IN  IF l.loop = "review" \/ l.isComplete THEN RequestFrame(fresh)
                                             ELSE fresh

\* the component mounts and its effect runs
LoopInit ==
    /\ ReviewIdle
    /\ sk = SkIdle
    /\ mp = MpIdle
    /\ an = AnIdle
    /\ up = UpIdle
    /\ rd = RdIdle
    /\ ph = PhIdle
    /\ \E loop \in {"review", "process"} :
          lp = RunEffect([loop |-> loop, mounted |-> TRUE,
                          isComplete |-> FALSE, pending |-> {},
                          animationFrame |-> NoFrame, next |-> 1,
                          ran |-> NoFrame, path |-> "none"])

\* the browser runs a pending callback: checkTime, along one of its paths
TickRuns ==
    /\ lp.next <= MaxFrames
    /\ \E h \in lp.pending, path \in TickPaths(lp.loop) :
          lp' = [RequestFrame([lp EXCEPT !.pending = @ \ {h}])
                    EXCEPT !.ran = h, !.path = path]
    /\ UNCHANGED <<review, sk, mp, an, up, rd, ph>>

\* a dependency of the effect changes ([isPlaying, cuts, isScrubbing] or
\* [isComplete, cuts]): the cleanup runs, then the effect again
EffectRestart ==
    /\ lp.mounted
    /\ lp.next <= MaxFrames
    /\ \E complete \in {lp.isComplete, TRUE} :
          lp' = [RunEffect([CancelFrame(lp) EXCEPT !.isComplete = complete])
                    EXCEPT !.ran = NoFrame, !.path = "restart"]
    /\ UNCHANGED <<review, sk, mp, an, up, rd, ph>>

\* the component unmounts: the cleanup runs
Teardown ==
    /\ lp.mounted
    /\ lp' = [CancelFrame(lp) EXCEPT !.mounted = FALSE, !.ran = NoFrame,
                                     !.path = "teardown"]
    /\ UNCHANGED <<review, sk, mp, an, up, rd, ph>>

LoopNext == TickRuns \/ EffectRestart \/ Teardown

SpecLoop == LoopInit /\ [][LoopNext]_vars

--------------------------------------------------------------------------
(* The analysis alone: analyzeVideoMock, the configuration filter of      *)
(* handleStartAnalysis and toggleCutStatus on the list handed to review.  *)

CutTypes == {"cliche", "filler", "silence", "repetition", "stutter"}

\* analyzeVideoMock: the first word of each type's list
WordOf == [filler |-> "Um", cliche |-> "At the end of the day",
           repetition |-> "I mean, I mean", stutter |-> "Th-th-the",
           silence |-> "(Silence)"]

\* values of Math.random(), as fractions <<n, d>> in [0, 1)
Random == {<<0, 1>>, <<1, 2>>}

\* id: `cut-${i}`
CutNames == <<"cut-0", "cut-1", "cut-2", "cut-3", "cut-4", "cut-5">>

\* const numberOfCuts = Math.max(5, Math.floor(duration / 10))
numberOfCuts(d) == Max(MinCuts, d \div SecondsPerCut)

\* the iterations of the loop a run makes
Iterations(d) == Min(MaxCuts, numberOfCuts(d))

\* const start = Math.random() * (duration - 5)
MockStart(d, r) == (r[1] * (d - StartMargin)) \div r[2]

\* mutant: every cut gets the same id
MockId_Constant(i) == CutNames[1]

MockId(i) == CutNames[i + 1]

\* end: start + length
MockEnd(start, type) == start + CutLength[type]

\* cuts.push({ id, type, word, start, end, confidence, status: 'accepted' });
\* the confidence, 0.8 + Math.random() * 0.19, is in hundredths
MockCut(i, d, roll) ==
    [id |-> MockId(i), type |-> roll.type, word |-> WordOf[roll.type],
     start |-> MockStart(d, roll.r),
     end |-> MockEnd(MockStart(d, roll.r), roll.type),
     confidence |-> 80 + (19 * roll.c[1]) \div roll.c[2],
     status |-> "accepted"]

\* one sorted insertion, after the elements that do not start later
InsertByStart(c, sorted) ==
    LET k == Cardinality({j \in 1..Len(sorted) : sorted[j].start <= c.start})
    IN  SubSeq(sorted, 1, k) \o <<c>> \o SubSeq(sorted, k + 1, Len(sorted))

RECURSIVE SortByStart(_)
\* cuts.sort((a, b) => a.start - b.start), a stable sort
SortByStart(cs) ==
    IF cs = <<>> THEN <<>>
    ELSE InsertByStart(cs[Len(cs)], SortByStart(SubSeq(cs, 1, Len(cs) - 1)))

\* the draws of one iteration: start, type and confidence
Rolls == [r : Random, type : CutTypes, c : {<<0, 1>>}]

analyzeVideoMock(d, rolls) ==
    SortByStart([i \in 1..Len(rolls) |-> MockCut(i - 1, d, rolls[i])])

\* the silence thresholds of the slider that are tried: 1 s (the default),
\* 2 s (the length of a silence) and 2.1 s
Thresholds == {20, 40, 42}

\* the VideoConfig fields the filter reads
Configs ==
    [removeCliches : BOOLEAN, removeFillers : BOOLEAN,
     removeSilence : BOOLEAN, removeRepetition : BOOLEAN,
     removeStuttering : BOOLEAN, silenceThreshold : Thresholds]

\* the predicate of generatedCuts.filter in handleStartAnalysis
KeepCut(c, config) ==
    /\ ~(c.type = "cliche" /\ ~config.removeCliches)
    /\ ~(c.type = "filler" /\ ~config.removeFillers)
    /\ ~(c.type = "silence"
         /\ (\/ ~config.removeSilence
             \/ (c.end - c.start) < config.silenceThreshold))
    /\ ~(c.type = "repetition" /\ ~config.removeRepetition)
    /\ ~(c.type = "stutter" /\ ~config.removeStuttering)

\* the durations handed to the mock: originalDuration || 60
AnalysisDurations == {DurShort, DurLong, FallbackDuration}

\* handleStartAnalysis has been called: the mock is awaited
AnalysisInit ==
    /\ ReviewIdle
    /\ sk = SkIdle
    /\ mp = MpIdle
    /\ up = UpIdle
    /\ lp = LpIdle
    /\ rd = RdIdle
    /\ ph = PhIdle
    /\ \E d \in AnalysisDurations, config \in Configs :
          an = [stage |-> "analyzing", d |-> d, config |-> config,
                cuts |-> <<>>]

\* analyzeVideoMock resolves with the generated cuts
MockResolves ==
    /\ an.stage = "analyzing"
    /\ \E rolls \in [1..Iterations(an.d) -> Rolls] :
          an' = [an EXCEPT !.stage = "generated",
                           !.cuts = analyzeVideoMock(an.d, rolls)]
    /\ UNCHANGED <<review, sk, mp, up, lp, rd, ph>>

\* handleStartAnalysis goes on: filter, setCuts(filteredCuts),
\* setPhase('review'); the review phase is given the cuts only
FilterAndReview ==
    /\ an.stage = "generated"
    /\ an' = [stage |-> "review",
              cuts |-> SelectSeq(an.cuts, LAMBDA c : KeepCut(c, an.config)),
              arg |-> <<>>]
    /\ UNCHANGED <<review, sk, mp, up, lp, rd, ph>>

\* the ids toggleCutStatus is called with: those of the mock and one that
\* no cut has
ToggleIds == {CutNames[i] : i \in 1..(MaxCuts + 1)} \cup {"cut-none"}

\* toggleCutStatus(id, status) in the review phase
AnalysisSetStatus ==
    /\ an.stage = "review"
    /\ \E id \in ToggleIds, status \in {"accepted", "rejected"} :
          an' = [an EXCEPT !.cuts = SetStatus(an.cuts, id, status),
                           !.arg = <<id, status>>]
    /\ UNCHANGED <<review, sk, mp, up, lp, rd, ph>>

AnalysisNext == MockResolves \/ FilterAndReview \/ AnalysisSetStatus

SpecAnalysis == AnalysisInit /\ [][AnalysisNext]_vars

-----
(* File selection, the duration probe and the start of the analysis       *)
(* (App and UploadPhase).  up holds App's phase, file and                 *)
(* originalDuration, UploadPhase's selectedFile, the File objects         *)
(* chosen so far with the duration their metadata reports, the probes     *)
(* whose onloadedmetadata has not fired, the files whose metadata has     *)
(* loaded, the duration handed to analyzeVideoMock, the file whose        *)
(* analysis produced App's cuts (none for the empty list) and how the     *)
(* last analysis ended.                                                   *)

\* no file: App's file and UploadPhase's selectedFile start as null
NoFile == 0

\* the durations the metadata of a chosen file reports
FileDurations == {DurShort, DurLong}

\* const mockDuration = originalDuration || 60
MockDuration(od) == IF od # 0 THEN od ELSE FallbackDuration

\* the application after mounting: upload phase, nothing selected
UploadInit ==
    /\ ReviewIdle
    /\ sk = SkIdle
    /\ mp = MpIdle
    /\ an = AnIdle
    /\ lp = LpIdle
    /\ rd = RdIdle
    /\ ph = PhIdle
    /\ up = [stage |-> "app", phase |-> "upload", file |-> NoFile,
             selectedFile |-> NoFile, originalDuration |-> 0,
             files |-> <<>>, probes |-> {}, loaded |-> {},
             mockDuration |-> <<>>, cuts |-> <<>>, outcome |-> "none"]

\* UploadPhase.validateAndSetFile with a valid file: setSelectedFile and
\* onFileSelect = setFile; App's effect on [file] then creates a probe
\* video for the new file.  The cleanup of the previous run only revokes
\* the object URL: the earlier probe keeps its onloadedmetadata handler.
validateAndSetFile ==
    /\ up.stage = "app"
    /\ up.phase = "upload"
    /\ Len(up.files) < MaxFiles
    /\ \E d \in FileDurations :
          LET f == Len(up.files) + 1
          IN  up' = [up EXCEPT !.files = Append(@, d),
                               !.selectedFile = f,
                               !.file = f,
                               !.probes = @ \cup {f}]
    /\ UNCHANGED <<review, sk, mp, an, lp, rd, ph>>

\* the "remove file" button of UploadPhase: only its own selectedFile
removeFile ==
    /\ up.stage = "app"
    /\ up.phase = "upload"
    /\ up.selectedFile # NoFile
    /\ up' = [up EXCEPT !.selectedFile = NoFile]
    /\ UNCHANGED <<review, sk, mp, an, lp, rd, ph>>

\* video.onloadedmetadata of a probe: setOriginalDuration(video.duration)
onloadedmetadata ==
    /\ up.stage = "app"
    /\ \E f \in up.probes :
          up' = [up EXCEPT !.originalDuration = up.files[f],
                           !.probes = @ \ {f},
                           !.loaded = @ \cup {f}]
    /\ UNCHANGED <<review, sk, mp, an, lp, rd, ph>>

\* the Analyze button (disabled without selectedFile): App's
\* handleStartAnalysis up to the call of analyzeVideoMock
handleStartAnalysis ==
    /\ up.stage = "app"
    /\ up.phase = "upload"
    /\ up.selectedFile # NoFile
    /\ up.file # NoFile
    /\ up' = [up EXCEPT !.phase = "analyzing",
                        !.mockDuration = <<MockDuration(up.originalDuration)>>]
    /\ UNCHANGED <<review, sk, mp, an, lp, rd, ph>>

\* the awaited analysis resolves: setCuts(filteredCuts),
\* setPhase('review'); UploadPhase has been unmounted and with it
\* selectedFile
analysisResolved ==
    /\ up.stage = "app"
    /\ up.phase = "analyzing"
    /\ up' = [up EXCEPT !.phase = "review",
                        !.selectedFile = NoFile,
                        !.mockDuration = <<>>,
                        !.cuts = <<up.file>>,
                        !.outcome = "resolved"]
    /\ UNCHANGED <<review, sk, mp, an, lp, rd, ph>>

\* mutant: a failed analysis is followed by the review
FailurePhase_Review == "review"

\* the catch of handleStartAnalysis: setPhase('upload')
FailurePhase == "upload"

\* the awaited analysis rejects: the catch logs, alerts and returns to the
\* upload phase; cuts is left as it is
analysisRejected ==
    /\ up.stage = "app"
    /\ up.phase = "analyzing"
    /\ up' = [up EXCEPT !.phase = FailurePhase,
                        !.selectedFile = NoFile,
                        !.mockDuration = <<>>,
                        !.outcome = "rejected"]
    /\ UNCHANGED <<review, sk, mp, an, lp, rd, ph>>

\* ReviewPhase's onCancel: setPhase('upload')
onCancel ==
    /\ up.stage = "app"
    /\ up.phase = "review"
    /\ up' = [up EXCEPT !.phase = "upload"]
    /\ UNCHANGED <<review, sk, mp, an, lp, rd, ph>>

\* handleConfirmCuts: setPhase('processing')
handleConfirmCuts ==
    /\ up.stage = "app"
    /\ up.phase = "review"
    /\ up' = [up EXCEPT !.phase = "processing"]
    /\ UNCHANGED <<review, sk, mp, an, lp, rd, ph>>

\* handleReset: setPhase('upload'), setFile(null), setFileUrl(''),
\* setCuts([]); originalDuration is left as it is
handleReset ==
    /\ up.stage = "app"
    /\ up.phase = "processing"
    /\ up' = [up EXCEPT !.phase = "upload", !.file = NoFile,
                        !.cuts = <<>>]
    /\ UNCHANGED <<review, sk, mp, an, lp, rd, ph>>

UploadNext ==
    \/ validateAndSetFile
    \/ removeFile
    \/ onloadedmetadata
    \/ handleStartAnalysis
    \/ analysisResolved
    \/ analysisRejected
    \/ onCancel
    \/ handleConfirmCuts
    \/ handleReset

SpecUpload == UploadInit /\ [][UploadNext]_vars

--------------------------------------------------------------------------
(* The simulated render of ProcessPhase alone: the effect on progress and *)
(* its timer.  rd holds the version of the component (the file keeps an   *)
(* earlier and a later one), progress, isComplete, the pending timeout    *)
(* and whether the component is mounted.                                  *)

\* if (progress >= 100): the render is complete
ProgressDone == 100

\* Math.floor(Math.random() * 5), and * 3 between 60 and 80; * 10 in the
\* first version
FastRange == 5

SlowRange == 3

FirstRange == 10

\* if (progress > 60 && progress < 80)
SlowFrom == 60

SlowTo == 80

\* no timeout pending
NoTimer == <<>>

\* mutant: no lower bound on the increment
Increment_NoMin(r) == r

\* Math.max(1, Math.floor(Math.random() * n)), r the floor
Increment(r) == Max(1, r)

\* the increments the later version computes when its effect runs
Increments(progress) ==
    IF progress > SlowFrom /\ progress < SlowTo
    THEN {Increment(r) : r \in 0..(SlowRange - 1)}
    ELSE {Increment(r) : r \in 0..(FastRange - 1)}

\* the timeouts an effect run can leave pending: the later version has
\* computed its increment, the first version computes it in the callback
\* (<<0>>); no timeout once progress is complete
Timers(version, progress) ==
    IF progress >= ProgressDone THEN {NoTimer}
    ELSE IF version = "later" THEN {<<i>> : i \in Increments(progress)}
         ELSE {<<0>>}

\* the increments a firing timeout may add
FiringIncrements(timer) ==
    IF timer[1] # 0 THEN {timer[1]}
    ELSE {Increment(r) : r \in 0..(FirstRange - 1)}

\* ProcessPhase mounts: progress 0, isComplete false, the effect runs
RenderInit ==
    /\ ReviewIdle
    /\ sk = SkIdle
    /\ mp = MpIdle
    /\ an = AnIdle
    /\ up = UpIdle
    /\ lp = LpIdle
    /\ ph = PhIdle
    /\ \E version \in {"first", "later"} :
          \E timer \in Timers(version, 0) :
             rd = [stage |-> "render", version |-> version, mounted |-> TRUE,
                   progress |-> 0, isComplete |-> FALSE, timer |-> timer,
                   fired |-> FALSE]

\* the timeout fires: setProgress(prev => Math.min(100, prev + increment));
\* progress is a dependency, so when it has changed the effect runs again
TimerFires ==
    /\ rd.stage = "render"
    /\ rd.mounted
    /\ rd.timer # NoTimer
    /\ \E i \in FiringIncrements(rd.timer) :
          LET p == Min(ProgressDone, rd.progress + i)
          IN  \E timer \in IF p # rd.progress THEN Timers(rd.version, p)
                                              ELSE {NoTimer} :
                 rd' = [rd EXCEPT !.progress = p, !.timer = timer,
                                  !.fired = TRUE]
    /\ UNCHANGED <<review, sk, mp, an, up, lp, ph>>

\* the effect's run with progress >= 100: setIsComplete(true), no timeout
SetComplete ==
    /\ rd.stage = "render"
    /\ rd.mounted
    /\ rd.progress >= ProgressDone
    /\ ~rd.isComplete
    /\ rd' = [rd EXCEPT !.isComplete = TRUE, !.fired = FALSE]
    /\ UNCHANGED <<review, sk, mp, an, up, lp, ph>>

\* the "Process Another" button of the completed view: the component unmounts,
\* the effect's cleanup clears the timeout
RenderUnmount ==
    /\ rd.stage = "render"
    /\ rd.mounted
    /\ rd.isComplete
    /\ rd' = [rd EXCEPT !.mounted = FALSE, !.timer = NoTimer,
                        !.fired = FALSE]
    /\ UNCHANGED <<review, sk, mp, an, up, lp, ph>>

RenderNext == TimerFires \/ SetComplete \/ RenderUnmount

SpecRender == RenderInit /\ [][RenderNext]_vars

\* the browser fires a pending timeout and React runs a pending update
SpecRenderFair ==
    RenderInit /\ [][RenderNext]_vars
      /\ WF_vars(TimerFires) /\ WF_vars(SetComplete)

--------------------------------------------------------------------------
(* The custom phrase editor alone (UploadPhase and App's saved lists).    *)
(* A phrase is a sequence of tokens, a token a word or a blank; ph holds  *)
(* config.customPhrases, savedLists, selectedListId, the number of the    *)
(* next saved list, the edits made so far and the last handler's branch.  *)

\* config.customPhrases.length < 10
PhraseLimit == 10

\* the initial savedLists of App
DefaultLists ==
    << [id |-> <<"default", 1>>,
        phrases |-> << <<"Hallelujah">>, <<"Amen">>, <<"Praise", " ", "God">>,
                       <<"Blessing">>, <<"Scripture">> >>],
       [id |-> <<"default", 2>>,
        phrases |-> << <<"Touch", " ", "base">>, <<"Circle", " ", "back">>,
                       <<"Synergy">>, <<"Deep", " ", "dive">>,
                       <<"Offline">> >>],
       [id |-> <<"default", 3>>,
        phrases |-> << <<"Literally">>, <<"No", " ", "cap">>, <<"Vibe">>,
                       <<"Bet">>, <<"Lowkey">> >>] >>

\* selectedListId '': the placeholder option of the select
NoList == <<"none", 0>>

\* what the user has typed into the phrase input
Inputs == {<<>>, <<" ">>, <<"a">>, <<" ", "a", " ">>}

\* String.prototype.trim: leading and trailing blanks removed
RECURSIVE Trim(_)
Trim(s) ==
    IF s = <<>> THEN s
    ELSE IF Head(s) = " " THEN Trim(Tail(s))
    ELSE IF s[Len(s)] = " " THEN Trim(SubSeq(s, 1, Len(s) - 1))
    ELSE s

\* mutant: the limit of ten not looked at
CanAdd_NoLimit(phrases, text) == Trim(text) # <<>>

\* addCustomPhrase: newPhrase.trim() && config.customPhrases.length < 10
CanAdd(phrases, text) == Trim(text) # <<>> /\ Len(phrases) < PhraseLimit

\* prev.customPhrases.filter((_, i) => i !== index), index from 0
RemoveAt(phrases, index) ==
    [i \in 1..(Len(phrases) - 1) |->
        IF i <= index THEN phrases[i] ELSE phrases[i + 1]]

\* savedLists.find(l => l.id === listId): its position, 0 for undefined
FindList(lists, listId) ==
    IF \E i \in 1..Len(lists) : lists[i].id = listId
    THEN CHOOSE i \in 1..Len(lists) :
            /\ lists[i].id = listId
            /\ \A j \in 1..(i - 1) : lists[j].id # listId
    ELSE 0

\* UploadPhase mounts in the initial state of App
PhrasesInit ==
    /\ ReviewIdle
    /\ sk = SkIdle
    /\ mp = MpIdle
    /\ an = AnIdle
    /\ up = UpIdle
    /\ lp = LpIdle
    /\ rd = RdIdle
    /\ ph = [stage |-> "phrases", customPhrases |-> <<>>,
             savedLists |-> DefaultLists, selectedListId |-> NoList,
             nextId |-> 1, edits |-> 0, last |-> "init"]

\* addCustomPhrase with the typed text
addCustomPhrase ==
    /\ ph.stage = "phrases"
    /\ \E text \in Inputs :
          IF CanAdd(ph.customPhrases, text)
          THEN ph' = [ph EXCEPT !.customPhrases = Append(@, Trim(text)),
                                !.last = "add"]
          ELSE ph' = [ph EXCEPT !.last = "addIgnored"]
    /\ UNCHANGED <<review, sk, mp, an, up, lp, rd>>

\* removeCustomPhrase(index), the button of a listed phrase
removeCustomPhrase ==
    /\ ph.stage = "phrases"
    /\ ph.edits < MaxEdits
    /\ \E index \in 0..(Len(ph.customPhrases) - 1) :
          ph' = [ph EXCEPT !.customPhrases = RemoveAt(@, index),
                           !.edits = @ + 1,
                           !.last = "remove"]
    /\ UNCHANGED <<review, sk, mp, an, up, lp, rd>>

\* handleLoadList(listId), an option of the select
handleLoadList ==
    /\ ph.stage = "phrases"
    /\ ph.edits < MaxEdits
    /\ \E listId \in {NoList} \cup
                     {ph.savedLists[i].id : i \in 1..Len(ph.savedLists)} :
          LET k == FindList(ph.savedLists, listId)
          IN  ph' = [ph EXCEPT !.selectedListId = listId,
                               !.customPhrases =
                                   IF k # 0 THEN ph.savedLists[k].phrases
                                            ELSE @,
                               !.edits = @ + 1,
                               !.last = IF k # 0 THEN "load" ELSE "loadNone"]
    /\ UNCHANGED <<review, sk, mp, an, up, lp, rd>>

\* saveCurrentList with a list name (named: its trim is not empty), and
\* App's handleSaveList: a new list with a copy of the phrases
saveCurrentList ==
    /\ ph.stage = "phrases"
    /\ ph.edits < MaxEdits
    /\ \E named \in BOOLEAN :
          IF named /\ Len(ph.customPhrases) > 0
          THEN ph' = [ph EXCEPT
                        !.savedLists =
                            Append(@, [id |-> <<"saved", ph.nextId>>,
                                       phrases |-> ph.customPhrases]),
                        !.nextId = @ + 1,
                        !.edits = @ + 1,
                        !.last = "save"]
          ELSE ph' = [ph EXCEPT !.edits = @ + 1, !.last = "saveIgnored"]
    /\ UNCHANGED <<review, sk, mp, an, up, lp, rd>>

\* the delete button of the selected list, confirmed: App's
\* handleDeleteList and setSelectedListId('')
handleDeleteList ==
    /\ ph.stage = "phrases"
    /\ ph.edits < MaxEdits
    /\ ph.selectedListId # NoList
    /\ ph' = [ph EXCEPT
                !.savedLists =
                    SelectSeq(@, LAMBDA l : l.id # ph.selectedListId),
                !.selectedListId = NoList,
                !.edits = @ + 1,
                !.last = "delete"]
    /\ UNCHANGED <<review, sk, mp, an, up, lp, rd>>

PhrasesNext ==
    \/ addCustomPhrase
    \/ removeCustomPhrase
    \/ handleLoadList
    \/ saveCurrentList
    \/ handleDeleteList

SpecPhrases == PhrasesInit /\ [][PhrasesNext]_vars

-----
(* Properties of the review player (specification Spec).                  *)

\* the tick ran in normal playback: media playing, no scrub, no preview bound
NormalPlayback == ~paused /\ ~isScrubbing /\ previewEnd = NoPreview

\* the accepted cuts that contain the time t, as half-open intervals
Containing(t) ==
    {i \in 1..Len(cuts) : /\ cuts[i].status = "accepted"
                          /\ cuts[i].start <= t
                          /\ t < cuts[i].end}

\* C1: in normal playback a tick at position t forces a skip jump if and
\* only if some accepted interval c has c.start <= t < c.end; t = c.end is
\* not contained.
C1_JumpIffContained ==
    [][(op' \in TickOps /\ NormalPlayback)
         => ((seek' # NoSeek) <=> (Containing(videoTime) # {}))]_vars

\* a tick in normal playback observed exactly the end of an accepted cut,
\* which no accepted cut contains, and did not jump
C1_Witness ==
    /\ op = "tickUpcoming"
    /\ seek = NoSeek
    /\ \E i \in 1..Len(cuts) :
          cuts[i].status = "accepted" /\ currentTime = cuts[i].end

\* the latest end among the accepted cuts containing t
LatestEnd(t) ==
    CHOOSE e \in {cuts[i].end : i \in Containing(t)} :
        \A i \in Containing(t) : cuts[i].end <= e

\* C2 as stated: the skip jump target is the latest end among the accepted
\* intervals that contain the position.
C2_LatestEnd ==
    [][(op' = "tickSkip") => (seek' = <<LatestEnd(videoTime)>>)]_vars

\* C2 amended: the skip jump target is the end of the first interval, in the
\* order of the set, that is accepted and contains the position.
C2_FirstContaining ==
    [][(op' = "tickSkip")
         => \E i \in Containing(videoTime) :
               /\ \A j \in Containing(videoTime) : i <= j
               /\ seek' = <<cuts[i].end>>]_vars

\* a tick jumped to the end of the first of two accepted cuts containing the
\* observed position, although the second one ends later
C2_Witness ==
    /\ op = "tickSkip"
    /\ \E i, j \in 1..Len(cuts) :
          /\ i < j
          /\ cuts[i].status = "accepted" /\ cuts[j].status = "accepted"
          /\ cuts[i].start <= currentTime /\ currentTime < cuts[i].end
          /\ cuts[j].start <= currentTime /\ currentTime < cuts[j].end
          /\ cuts[i].end < cuts[j].end
          /\ seek = <<cuts[i].end>>

\* C4: a tick that runs while scrubbing is active neither overwrites the
\* position from the media clock, nor issues a skip jump, nor stops a preview.
C4_ScrubPrecedence ==
    [][(op' \in TickOps /\ isScrubbing)
         => /\ currentTime' = currentTime
            /\ videoTime' = videoTime
            /\ seek' = NoSeek
            /\ previewEnd' = previewEnd
            /\ paused' = paused]_vars

\* a tick ran during a scrub while the media was advancing past a preview
\* bound, away from the scrubbed position, and left everything as it was
C4_Witness ==
    /\ op = "tickScrubbing"
    /\ isScrubbing
    /\ ~paused
    /\ previewEnd # NoPreview
    /\ videoTime >= previewEnd[1]
    /\ currentTime # videoTime

\* C5: while previewBound is set no tick forces a skip jump, also when the
\* position lies in an accepted interval.
C5_NoSkipInPreview ==
    [][(op' \in TickOps /\ previewEnd # NoPreview)
         => (seek' = NoSeek /\ videoTime' = videoTime)]_vars

\* a preview tick observed a position inside an accepted cut and let it play
C5_Witness ==
    /\ op = "tickPreview"
    /\ previewEnd # NoPreview
    /\ Containing(currentTime) # {}
    /\ videoTime = currentTime
    /\ seek = NoSeek

\* C6 as stated: a preview command sets the position to max(0, c.start - 1),
\* previewBound to min(duration, c.end + 1), and starts autonomous advance.
C6_PreviewStartsAdvance ==
    [][(op' \in {"preview", "previewPlayFailed"})
         => \E i \in 1..Len(cuts) :
               /\ seek' = <<Max(0, cuts[i].start - PreviewPad)>>
               /\ previewEnd' = <<Min(duration, cuts[i].end + PreviewPad)>>
               /\ ~paused']_vars

\* C6 amended: a preview command seeks the media to max(0, c.start - 1), sets
\* previewBound to min(duration, c.end + 1) and asks the media to play;
\* autonomous advance starts unless the media rejects the request, and then
\* the media stays paused.
C6_PreviewCommand ==
    [][(op' \in {"preview", "previewPlayFailed"})
         => \E i \in 1..Len(cuts) :
               /\ seek' = <<Max(0, cuts[i].start - PreviewPad)>>
               /\ previewEnd' = <<Min(duration, cuts[i].end + PreviewPad)>>
               /\ IF op' = "preview" THEN ~paused' /\ isPlaying'
                                     ELSE paused /\ paused'
                                          /\ isPlaying' = isPlaying]_vars

\* a preview was started from a scrub session, with both clamps at work: the
\* start clamped to 0 and the bound clamped to the duration
C6_Witness ==
    /\ op = "preview"
    /\ isScrubbing
    /\ ~paused
    /\ duration > 0
    /\ \E i \in 1..Len(cuts) :
          /\ activeCutId = cuts[i].id
          /\ cuts[i].start - PreviewPad < 0
          /\ cuts[i].end + PreviewPad > duration
          /\ seek = <<0>>
          /\ previewEnd = <<duration>>

\* C7: the tick that observes position >= previewBound during a preview
\* pauses the media, clears previewBound and issues no seek.
C7_PreviewStops ==
    [][(/\ op' \in TickOps
        /\ ~isScrubbing /\ ~paused
        /\ previewEnd # NoPreview
        /\ videoTime >= previewEnd[1])
         => /\ paused' /\ ~isPlaying'
            /\ previewEnd' = NoPreview
            /\ seek' = NoSeek
            /\ videoTime' = videoTime
            /\ currentTime' = videoTime]_vars

\* a tick has just stopped a preview, exactly at its bound
C7_Witness ==
    /\ op = "tickPreviewStop"
    /\ paused /\ ~isPlaying
    /\ previewEnd = NoPreview
    /\ \E i \in 1..Len(cuts) :
          /\ activeCutId = cuts[i].id
          /\ currentTime = cuts[i].end + PreviewPad
    /\ videoTime = currentTime

RECURSIVE SumLengths(_)
\* the sum of end - start over the cuts with index in the set S
SumLengths(S) ==
    IF S = {} THEN 0
    ELSE LET i == CHOOSE x \in S : TRUE
         IN  (cuts[i].end - cuts[i].start) + SumLengths(S \ {i})

AcceptedNow == {i \in 1..Len(cuts) : cuts[i].status = "accepted"}

\* C8: after any sequence of status changes timeSaved is the sum of
\* end - start over the accepted intervals, cutsCount their number and
\* finalDuration = originalDuration - timeSaved, for the metrics of the App
\* and for the stats the review header shows.
C8_MetricsCurrent ==
    LET m == calculateMetrics(cuts, originalDuration)
    IN  /\ m.timeSaved = SumLengths(AcceptedNow)
        /\ m.cutsCount = Cardinality(AcceptedNow)
        /\ m.finalDuration = originalDuration - SumLengths(AcceptedNow)
        /\ stats.timeSaved = SumLengths(AcceptedNow)
        /\ stats.count = Cardinality(AcceptedNow)

\* a cut was rejected and another one is still accepted
C8_Witness ==
    /\ op = "toggle"
    /\ Cardinality(AcceptedNow) = 1
    /\ Len(cuts) = 2
    /\ stats.count = 1

\* C9: with duration 0 the offsets of the playhead, of the progress fill and
\* of the interval markers are 0, and nothing is divided by zero.
C9_NoDivisionByZero ==
    duration = 0
      => /\ PlayheadLeft = Zero
         /\ \A i \in 1..Len(cuts) : MarkerLeft(cuts[i]) = Zero

--------------------------------------------------------------------------
(* Properties of the stand-alone runs.                                    *)

\* no further jump: the policy of the run's loop finds no cut to skip
Settled ==
    IF sk.loop = "review" THEN InAccepted(sk.cuts, sk.pos) = {}
                          ELSE ProcessActive(sk.cuts, sk.pos) = {}

\* C3: applying the skip policy again and again, with the cuts fixed, makes
\* at most N jumps (N the number of accepted intervals) and ends at a
\* position that no accepted interval contains.
C3_SkipConverges ==
    LET acc == {i \in 1..Len(sk.cuts) : sk.cuts[i].status = "accepted"}
    IN  sk.loop # "none"
          => /\ sk.jumps <= Cardinality(acc)
             /\ Settled => \A i \in acc :
                              ~(sk.cuts[i].start <= sk.pos
                                /\ sk.pos < sk.cuts[i].end)

\* C10 as stated: a time in [0, duration] mapped to its fraction and back is
\* the original time.
C10_RoundTripExact ==
    mp.stage = "scrubbed" => mp.back[1] = mp.time * mp.back[2]

\* C10 amended: the time mapped to its fraction and back is the original time
\* within floating tolerance: the error is at most time * 2^(1 - MantBits).
C10_RoundTripTolerance ==
    mp.stage = "scrubbed"
      => Abs(mp.back[1] - mp.time * mp.back[2]) * Pow2(MantBits - 1)
           <= mp.time * mp.back[2]

\* a round trip that did not return the time exactly
C10_Witness ==
    /\ mp.stage = "scrubbed"
    /\ mp.time > 0
    /\ mp.back[1] # mp.time * mp.back[2]

--------------------------------------------------------------------------
(* Properties of the scrub session and of the commands' guards.           *)

\* the modes of the player, read off the media element and the preview bound
ModePlaying == ~paused /\ previewEnd = NoPreview

ModePreviewing == ~paused /\ previewEnd # NoPreview

ScrubEndOps == {"scrubEnd", "scrubEndPlayFailed"}

\* C11 as stated: scrub-start records wasPlayingBeforeScrub = (mode =
\* Playing), pauses the media and enters Scrubbing; scrub-end resumes
\* playback if and only if wasPlayingBeforeScrub was true and otherwise
\* leaves the player paused, so a scrub started from a preview or from Idle
\* ends paused.
C11_ScrubRestoresMode ==
    [][/\ (op' = "scrubStart")
            => /\ wasPlaying' = ModePlaying
               /\ paused'
               /\ isScrubbing'
       /\ (op' \in ScrubEndOps)
            => /\ ~isScrubbing'
               /\ ~paused' <=> wasPlaying]_vars

\* C11 amended: scrub-start records wasPlayingBeforeScrub = (the media was
\* advancing, in mode Playing or PreviewingSegment), pauses the media and
\* enters Scrubbing; scrub-end asks the media to play if and only if
\* wasPlayingBeforeScrub was true, which resumes playback unless the media
\* rejects the request, and otherwise leaves the play/pause state as it is.
C11_ScrubRestoresAdvance ==
    [][/\ (op' = "scrubStart")
            => /\ wasPlaying' = (ModePlaying \/ ModePreviewing)
               /\ paused'
               /\ isScrubbing'
       /\ (op' \in ScrubEndOps)
            => /\ ~isScrubbing'
               /\ ~wasPlaying'
               /\ IF wasPlaying
                  THEN IF op' = "scrubEnd" THEN ~paused' /\ isPlaying'
                                           ELSE paused /\ paused'
                  ELSE paused' = paused /\ isPlaying' = isPlaying]_vars

\* a scrub that began while the media was advancing has ended and playback
\* has resumed, with no preview bound
C11_Witness ==
    /\ op = "scrubEnd"
    /\ ~isScrubbing
    /\ ~paused /\ isPlaying
    /\ duration > 0
    /\ previewEnd = NoPreview
    /\ currentTime = videoTime

PreviewOps == {"preview", "previewPlayFailed"}

\* C12: a scrub-start in any mode leaves previewBound unset; scrub-end does
\* not set it again, and during the session only a new preview command can
\* set a bound, so the pre-empted preview is not resumed as a bounded one.
C12_ScrubStartClearsPreview ==
    [][/\ (op' = "scrubStart") => previewEnd' = NoPreview
       /\ (op' \in ScrubEndOps) => previewEnd' = previewEnd
       /\ (previewEnd = NoPreview /\ op' \notin PreviewOps)
            => previewEnd' = NoPreview]_vars

\* a scrub has just started on a media that was advancing: the media is
\* paused and no preview bound is left
C12_Witness ==
    /\ op = "scrubStart"
    /\ isScrubbing
    /\ wasPlaying
    /\ paused
    /\ duration > 0
    /\ activeCutId # Null
    /\ previewEnd = NoPreview

ScrubOps == {"scrubStart", "scrubMove"}

\* C13: with the duration known, a scrub command for any pointer offset,
\* left or right of the timeline included, sets the position to
\* clamp(offset, 0, width) / width * duration, a value in [0, duration],
\* seeks the media to that same value and never starts playback.
C13_ScrubSetsPosition ==
    [][(duration > 0 /\ op' \in ScrubOps)
         => /\ \E px \in PointerOffsets :
                  LET x == IF px < 0 THEN 0 ELSE IF px > Width THEN Width
                                                               ELSE px
                  IN  currentTime' = (x * duration) \div Width
            /\ 0 <= currentTime' /\ currentTime' <= duration
            /\ seek' = <<currentTime'>>
            /\ videoTime' = currentTime'
            /\ paused => paused'
            /\ ~isPlaying => ~isPlaying']_vars

\* the pointer was dragged to or beyond the right edge of the timeline: the
\* position and the media are at the duration, and nothing plays
C13_Witness ==
    /\ op = "scrubMove"
    /\ isScrubbing
    /\ duration > 0
    /\ currentTime = duration
    /\ seek = <<duration>>
    /\ videoTime = duration
    /\ paused

\* C14: a scrub-start, scrub-move or preview command issued while the
\* duration is unknown (0) changes nothing: not the position, the play/pause
\* state, the scrubbing flag, previewBound or the active interval id.
C14_NoOpBeforeDuration ==
    [][(duration = 0 /\ op' \in ScrubOps \cup PreviewOps)
         => /\ currentTime' = currentTime
            /\ videoTime' = videoTime
            /\ paused' = paused
            /\ isPlaying' = isPlaying
            /\ isScrubbing' = isScrubbing
            /\ previewEnd' = previewEnd
            /\ activeCutId' = activeCutId]_vars

\* the cuts that start after the end of the media
BeyondDuration == {i \in 1..Len(cuts) : cuts[i].start > duration}

\* C15: a preview command for an interval whose start exceeds the (known)
\* duration is rejected: the position, previewBound, the play/pause state and
\* the active interval id stay as they were.
C15_PreviewBeyondRejected ==
    [][(/\ duration > 0
        /\ op' \in PreviewOps
        /\ \E i \in BeyondDuration : activeCutId' = cuts[i].id)
         => /\ videoTime' = videoTime
            /\ currentTime' = currentTime
            /\ previewEnd' = previewEnd
            /\ paused' = paused
            /\ isPlaying' = isPlaying
            /\ activeCutId' = activeCutId]_vars

\* C16: with the duration known, every position written to the media as a
\* jump or seek (skip jump, preview start, scrub seek, skip buttons) lies in
\* [0, duration], also when an interval starts or ends after the duration.
C16_SeeksWithinDuration ==
    [][(duration > 0 /\ seek' # NoSeek)
         => (0 <= seek'[1] /\ seek'[1] <= duration)]_vars

\* the rejected cuts that contain the time t, as half-open intervals
RejectedAt(t) ==
    {i \in 1..Len(cuts) : /\ cuts[i].status = "rejected"
                          /\ cuts[i].start <= t
                          /\ t < cuts[i].end}

\* C17: a rejected interval never moves the cursor.  Whatever toggles and
\* ticks came before, a tick that jumps jumps to the end of an interval that
\* is accepted at that moment and contains the position; a tick at a position
\* that only rejected intervals contain does not jump, and the toggle itself
\* moves nothing.
C17_RejectedNeverJumps ==
    [][/\ (op' \in TickOps /\ seek' # NoSeek)
            => \E i \in 1..Len(cuts) :
                  /\ cuts[i].status = "accepted"
                  /\ cuts[i].start <= videoTime /\ videoTime < cuts[i].end
                  /\ seek' = <<cuts[i].end>>
                  /\ activeCutId' = cuts[i].id
       /\ (op' \in TickOps /\ Containing(videoTime) = {})
            => (seek' = NoSeek /\ videoTime' = videoTime)
       /\ (op' = "toggle")
            => (seek' = NoSeek /\ videoTime' = videoTime
                /\ currentTime' = currentTime)]_vars

\* in normal playback a tick observed a position inside a rejected interval
\* and inside no accepted one, and let the media play on
C17_Witness ==
    /\ op = "tickUpcoming"
    /\ ~paused /\ ~isScrubbing
    /\ RejectedAt(currentTime) # {}
    /\ Containing(currentTime) = {}
    /\ videoTime = currentTime
    /\ seek = NoSeek

\* the cut that cuts.find returns among the set S of indices: the first
FirstOf(S) == CHOOSE i \in S : \A j \in S : i <= j

\* C18: a tick in normal playback that finds the position inside an accepted
\* interval writes exactly that interval's end to the media, once, in that
\* same tick, and makes that interval the active one; the media is at that
\* end after the tick when the end lies within the media.  A tick that finds
\* none writes nothing to the media and only updates the displayed position
\* and the highlighted (upcoming) interval.
C18_TickFrame ==
    [][(op' \in TickOps /\ NormalPlayback)
         => /\ IF Containing(videoTime) # {}
               THEN LET c == cuts[FirstOf(Containing(videoTime))]
                    IN  /\ seek' = <<c.end>>
                        /\ activeCutId' = c.id
                        /\ c.end <= mediaDuration => videoTime' = c.end
                        /\ videoTime' <= c.end
               ELSE /\ seek' = NoSeek
                    /\ videoTime' = videoTime
                    /\ activeCutId' =
                          IF \E i \in 1..Len(cuts) :
                                Abs(cuts[i].start - videoTime) < Lookahead
                          THEN cuts[FirstOf({i \in 1..Len(cuts) :
                                  Abs(cuts[i].start - videoTime) < Lookahead})].id
                          ELSE Null
            /\ currentTime' = videoTime
            /\ paused' = paused /\ isPlaying' = isPlaying
            /\ previewEnd' = previewEnd /\ isScrubbing' = isScrubbing
            /\ wasPlaying' = wasPlaying
            /\ cuts' = cuts /\ duration' = duration]_vars

\* a tick has just jumped over an accepted cut: the media is at the cut's
\* end, the displayed position is still the one observed inside the cut, and
\* the cut is the active one
C18_Witness ==
    /\ op = "tickSkip"
    /\ ~paused /\ ~isScrubbing /\ previewEnd = NoPreview
    /\ \E i \in 1..Len(cuts) :
          /\ cuts[i].status = "accepted"
          /\ activeCutId = cuts[i].id
          /\ cuts[i].start <= currentTime /\ currentTime < cuts[i].end
          /\ seek = <<cuts[i].end>>
          /\ videoTime = cuts[i].end

\* C19: in every reachable state previewBound is set only while the media
\* advances under a preview: it is unset whenever the media is paused and
\* whenever a scrub is in progress.
C19_BoundOnlyInPreview ==
    previewEnd # NoPreview => (~paused /\ ~isScrubbing)

\* C20: from scrub-start until scrub-end the media is paused in every state,
\* whatever play, pause, preview or skip commands arrive meanwhile, and the
\* position of the media changes only through scrub input.
C20_PausedWhileScrubbing ==
    [][/\ isScrubbing' => paused'
       /\ (isScrubbing /\ isScrubbing' /\ videoTime' # videoTime)
            => op' \in ScrubOps]_vars

--------------------------------------------------------------------------
(* Properties of the position, of play failures and of the cut list.      *)

\* C21: in every reachable state the displayed position currentTime lies in
\* [0, duration], after any ticks, skip jumps, scrub, preview and skip
\* commands.
C21_PositionWithinDuration ==
    0 <= currentTime /\ currentTime <= duration

PlayFailedOps == {"previewPlayFailed", "scrubEndPlayFailed"}

PlayButtonOps == {"play", "pause", "playFailed"}

\* C22: when the media rejects the play request of a preview command or of
\* scrub-end, the player does not become Playing or PreviewingSegment: the
\* media stays paused and isPlaying stays false (after a preview the
\* scrubbing flag is as before, after scrub-end the scrub is over); and the
\* play button pressed next asks the media to play, which starts playback
\* when the media accepts.
C22_PlayRejectionKeepsMode ==
    [][/\ (op' = "previewPlayFailed")
            => /\ paused /\ paused'
               /\ ~isPlaying /\ ~isPlaying'
               /\ isScrubbing' = isScrubbing
       /\ (op' = "scrubEndPlayFailed")
            => /\ paused /\ paused'
               /\ ~isPlaying /\ ~isPlaying'
               /\ ~isScrubbing'
       /\ (op \in PlayFailedOps /\ op' \in PlayButtonOps)
            => /\ op' # "pause"
               /\ (op' = "play") => (~paused' /\ isPlaying')]_vars

\* the play button has started the media right where a preview left it: at
\* the start of the active cut's window, under the bound the preview set
C22_Witness ==
    /\ op = "play"
    /\ ~paused /\ isPlaying
    /\ duration > 0
    /\ \E i \in 1..Len(cuts) :
          /\ activeCutId = cuts[i].id
          /\ videoTime = PreviewStart(cuts[i])
          /\ previewEnd = <<PreviewBound(cuts[i])>>
    /\ currentTime # videoTime

--------------------------------------------------------------------------
(* Properties of the analysis and of the cut list (SpecAnalysis).         *)

\* the fields of a cut other than its status
FrameFields == {"id", "type", "word", "start", "end", "confidence"}

\* C23: setStatus(id, s) changes only the status of the interval whose id is
\* id: the number of intervals, their order, every other interval and every
\* other field stay as they were, and an id that no interval has leaves the
\* whole list unchanged.
C23_SetStatusFrame ==
    [][(an.stage = "review" /\ an'.stage = "review")
         => LET id == an'.arg[1]
                status == an'.arg[2]
            IN  /\ Len(an'.cuts) = Len(an.cuts)
                /\ \A i \in 1..Len(an.cuts) :
                      /\ DOMAIN an'.cuts[i] = DOMAIN an.cuts[i]
                      /\ \A f \in FrameFields :
                            an'.cuts[i][f] = an.cuts[i][f]
                      /\ an'.cuts[i].status =
                            IF an.cuts[i].id = id THEN status
                                                  ELSE an.cuts[i].status
                /\ (\A i \in 1..Len(an.cuts) : an.cuts[i].id # id)
                      => an'.cuts = an.cuts]_vars

\* setStatus has just been called with an id that no interval has, on a list
\* in which an earlier call rejected one interval and left another accepted
C23_Witness ==
    /\ an.stage = "review"
    /\ an.arg = <<"cut-none", "rejected">>
    /\ \E i, j \in 1..Len(an.cuts) :
          /\ an.cuts[i].status = "rejected"
          /\ an.cuts[j].status = "accepted"

--------------------------------------------------------------------------
(* Properties of the frame scheduling (SpecLoop).                         *)

\* C24: at most one tick callback of a loop is pending at any time.  A loop
\* that is running has exactly one, the one whose handle the effect holds; a
\* tick that has run has requested exactly one new frame, on each of its
\* paths; a restart of the effect has cancelled the pending tick before it
\* requested a new one; after teardown nothing is pending, so that no tick
\* runs and no seek is issued.
C24_OneTickPending ==
    lp.loop # "none"
      => /\ Cardinality(lp.pending) <= 1
         /\ (lp.mounted /\ (lp.loop = "review" \/ lp.isComplete))
               => lp.pending = {lp.animationFrame}
         /\ (lp.path \in TickPaths(lp.loop))
               => (Cardinality(lp.pending) = 1 /\ lp.ran \notin lp.pending)
         /\ ~lp.mounted => (lp.pending = {} /\ lp.path = "teardown")

\* a review loop has been torn down after its effect was restarted and its
\* ticks ran: nothing is pending
C24_Witness ==
    /\ lp.loop = "review"
    /\ ~lp.mounted
    /\ lp.path = "teardown"
    /\ lp.next > 4
    /\ lp.pending = {}

--------------------------------------------------------------------------
(* Further properties of the review player (specification Spec).          *)

\* the cuts whose preview sets the bound that is set now
Previewed == {i \in 1..Len(cuts) : previewEnd = <<PreviewBound(cuts[i])>>}

\* C25: while interval c is previewed, every tick whose position lies in
\* [c.start - 1.5, c.end + 1.5] reports c.id as the active interval, also
\* when the window of another interval contains the position.
C25_PreviewHighlight ==
    [][(op' = "tickPreview" /\ duration > 0)
         => \A i \in Previewed :
               (/\ Previewed = {i}
                /\ cuts[i].start - HighlightPad <= videoTime
                /\ videoTime <= cuts[i].end + HighlightPad)
                 => activeCutId' = cuts[i].id]_vars

--------------------------------------------------------------------------
(* Further properties of the analysis (SpecAnalysis).                     *)

\* C26: every interval of the set has start < end and an id that no other
\* interval of the set has: in the set the analysis produces, after the
\* configuration filter and after any sequence of setStatus calls.
C26_WellFormedCuts ==
    an.stage \in {"generated", "review"}
      => /\ \A i \in 1..Len(an.cuts) : an.cuts[i].start < an.cuts[i].end
         /\ \A i, j \in 1..Len(an.cuts) :
               i # j => an.cuts[i].id # an.cuts[j].id

\* in review, after a setStatus call: two cuts that start at the same time,
\* one of them rejected
C26_Witness ==
    /\ an.stage = "review"
    /\ an.arg # <<>>
    /\ Len(an.cuts) = 2
    /\ an.cuts[1].start = an.cuts[2].start
    /\ an.cuts[1].status # an.cuts[2].status

--------------------------------------------------------------------------
(* Further properties of the stand-alone skip runs (SpecSkip).            *)

\* C27: the result player moves the position out of every accepted interval:
\* whenever the playing position t has start <= t < end for an accepted
\* interval, also within its last 0.1 s, the tick finds an interval to skip,
\* and the jump it makes lands outside the interval it skips.
C27_ProcessSkipsAccepted ==
    sk.loop = "process"
      => /\ \A i \in 1..Len(sk.cuts) :
               (/\ sk.cuts[i].status = "accepted"
                /\ sk.cuts[i].start <= sk.pos
                /\ sk.pos < sk.cuts[i].end)
                 => ProcessActive(sk.cuts, sk.pos) # {}
         /\ ProcessActive(sk.cuts, sk.pos) # {}
               => LET c == sk.cuts[FindIndex(Len(sk.cuts),
                                             ProcessActive(sk.cuts, sk.pos))]
                  IN  ProcessJumpTarget(sk.cuts, sk.pos) >= c.end

\* C28: every interval the analysis produces for a duration d > 0 lies
\* within the medium: 0 <= start and end <= d, also for d below 5 s.
C28_CutsWithinDuration ==
    an.stage = "generated"
      => \A i \in 1..Len(an.cuts) :
            0 <= an.cuts[i].start /\ an.cuts[i].end <= an.d


\* the removal flag of a cut type in the configuration
FlagEnabled(type, config) ==
    CASE type = "cliche" -> config.removeCliches
      [] type = "filler" -> config.removeFillers
      [] type = "silence" -> config.removeSilence
      [] type = "repetition" -> config.removeRepetition
      [] type = "stutter" -> config.removeStuttering

\* a generated cut that the configuration asks for
Wanted(c, config) ==
    /\ FlagEnabled(c.type, config)
    /\ c.type = "silence" => (c.end - c.start) > config.silenceThreshold

\* C29: the intervals handed to review are exactly the generated ones whose
\* type's removal flag is enabled and, for a silence, whose length is
\* greater than the configured silence threshold.
C29_ReviewSetFiltered ==
    [][(an.stage = "generated" /\ an'.stage = "review")
         => an'.cuts = SelectSeq(an.cuts, LAMBDA c : Wanted(c, an.config))]_vars


\* C30: the duration passed to the analysis is the duration of the
\* currently selected file when that file's metadata has loaded and the
\* fallback 60 s otherwise, whatever selections, metadata callbacks and
\* resets came before.
C30_DurationOfSelectedFile ==
    [][(up.stage = "app" /\ up.phase = "upload" /\ up'.phase = "analyzing")
         => up'.mockDuration =
               <<IF up.file \in up.loaded THEN up.files[up.file]
                                           ELSE FallbackDuration>>]_vars


\* C31: in a scrub session playback is resumed after scrub-end if and only
\* if the media was playing before the first scrub-start, also when
\* scrub-start is received again before scrub-end: the playing state that
\* handleScrubEnd decides on, remembered at the first scrub-start, is what
\* a further scrub-start of the session leaves in place.
C31_SecondScrubStartKeepsResume ==
    [][(isScrubbing /\ op' = "scrubStart") => wasPlaying' = wasPlaying]_vars


\* C32: every preview eventually ends: under fair ticks and an advancing
\* media clock a state with the preview bound set leads to a state with
\* the bound unset, also when the media reaches the end of the content or
\* is paused by the user before a tick observes the bound.  Only ticks
\* and the clock are asked to end it: the behaviours looked at are those
\* in which the user's commands stop at some point.
C32_PreviewEventuallyEnds ==
    <>[][checkTime \/ MediaClock]_vars
      => ((previewEnd # NoPreview) ~> (previewEnd = NoPreview))


\* C33: for every interval set of the analysis and every accept/reject
\* assignment the metrics satisfy 0 <= timeSaved <= originalDuration and
\* 0 <= finalDuration <= originalDuration, also when the metadata of the
\* original never loaded.
C33_MetricsWithinDuration ==
    LET m == calculateMetrics(cuts, originalDuration)
    IN  /\ 0 <= m.timeSaved /\ m.timeSaved <= m.originalDuration
        /\ 0 <= m.finalDuration /\ m.finalDuration <= m.originalDuration


\* C34: a skip command of s seconds sets the position to
\* clamp(media position + s, 0, duration), clears the preview bound and
\* leaves the play/pause state, the scrubbing flag, the interval set and
\* the active interval id as they were.
C34_SkipFrame ==
    [][\A s \in SkipAmounts :
          skip(s) =>
             LET target == Max(0, Min(duration, videoTime + s))
             IN  /\ currentTime' = target
                 /\ videoTime' = target
                 /\ seek' = <<target>>
                 /\ previewEnd' = NoPreview
                 /\ UNCHANGED <<paused, isPlaying, isScrubbing, cuts,
                                activeCutId>>]_vars

\* a skip has been clamped to the end of a playing medium with an interval
\* highlighted
C34_Witness ==
    /\ op = "skip"
    /\ duration > 0
    /\ seek = <<duration>>
    /\ ~paused /\ isPlaying
    /\ activeCutId # Null
    /\ previewEnd = NoPreview


\* C35: the simulated render terminates: progress starts at 0, strictly
\* increases at every timer firing while below 100, never exceeds 100,
\* reaches 100 after finitely many firings, isComplete then becomes true
\* and never returns to false, and no timer is scheduled once progress
\* is 100.
C35_RenderTerminates ==
    /\ rd.progress = 0 /\ ~rd.isComplete
    /\ [](0 <= rd.progress /\ rd.progress <= ProgressDone)
    /\ [](rd.progress = ProgressDone => rd.timer = NoTimer)
    /\ [](rd.isComplete => rd.progress = ProgressDone)
    /\ [][TimerFires => (rd.progress < ProgressDone
                         /\ rd'.progress > rd.progress)]_vars
    /\ [][rd.isComplete => rd'.isComplete]_vars
    /\ <>(rd.progress = ProgressDone)
    /\ (rd.progress = ProgressDone) ~> rd.isComplete

\* a timer firing has brought progress to 100: no timer is pending and
\* isComplete is about to be set
C35_Witness ==
    /\ rd.stage = "render"
    /\ rd.fired
    /\ rd.progress = ProgressDone
    /\ rd.timer = NoTimer
    /\ ~rd.isComplete


\* C36: the phase changes only along upload -> analyzing (with a file
\* selected), analyzing -> review (the analysis succeeded), analyzing ->
\* upload (it failed), review -> processing, review -> upload and
\* processing -> upload (reset, which empties the interval set and the
\* file); the review is shown only with the interval set of an analysis
\* that succeeded.
C36_PhaseTransitions ==
    /\ [][(up.stage = "app" /\ up'.phase # up.phase)
            => \/ /\ up.phase = "upload" /\ up'.phase = "analyzing"
                  /\ up.file # NoFile
               \/ /\ up.phase = "analyzing" /\ up'.phase = "review"
                  /\ up'.outcome = "resolved"
                  /\ up'.cuts = <<up.file>>
               \/ /\ up.phase = "analyzing" /\ up'.phase = "upload"
                  /\ up'.outcome = "rejected"
               \/ up.phase = "review" /\ up'.phase = "processing"
               \/ up.phase = "review" /\ up'.phase = "upload"
               \/ /\ up.phase = "processing" /\ up'.phase = "upload"
                  /\ up'.cuts = <<>>
                  /\ up'.file = NoFile]_vars
    /\ [](up.phase = "review"
            => up.outcome = "resolved" /\ up.cuts = <<up.file>>)

\* the review is shown for the third file chosen, with the interval set of
\* that file's analysis
C36_Witness ==
    /\ up.stage = "app"
    /\ up.phase = "review"
    /\ up.file = 3
    /\ up.cuts = <<3>>


\* C37: the active custom phrase list never holds more than 10 phrases and
\* never holds an empty phrase, after any sequence of add, remove, load,
\* save and delete operations from the initial state.
C37_PhraseListBounded ==
    ph.stage = "phrases"
      => /\ Len(ph.customPhrases) <= 10
         /\ \A i \in 1..Len(ph.customPhrases) : ph.customPhrases[i] # <<>>

\* an addition has been refused on a list of ten phrases that was loaded
\* from a saved list and extended
C37_Witness ==
    /\ ph.stage = "phrases"
    /\ ph.last = "addIgnored"
    /\ Len(ph.customPhrases) = 10
    /\ ph.selectedListId # NoList

====
